---- MODULE Spec2Model ----
(***************************************************************************)
(* Distributed order-matching cluster: the per-symbol OrderBook            *)
(* (common/orderbook.py), the MatchEngine (engine/match_engine.py), the    *)
(* OrderBookSynchronizer (engine/synchronizer.py), the gRPC servicer       *)
(* (network/grpc_server.py) and the simulator loop (main.py).              *)
(*                                                                         *)
(* Two drivers reach MatchEngine.submit_order:                             *)
(*   - main.py run_simulation, whose orders carry the enum members         *)
(*     Side.BUY / Side.SELL (specification Spec);                          *)
(*   - MatchingServicer.SubmitOrder, whose requests carry the wire strings *)
(*     "BUY" / "SELL" written by client.py (specification SpecWire).       *)
(* match_engine.py compares order.side with the enum members, orderbook.py *)
(* compares it with the strings; an enum member never equals a string, so  *)
(* the four values are kept apart here.                                    *)
(***************************************************************************)
EXTENDS Integers, Sequences, FiniteSets, TLC

\* ---------------------------------------------------------------- bounds
MaxPrice == 3
MaxQty == 2
MaxSimQty == 1
MaxOrders == 3
MaxGossipOrders == 2
MaxEdgeOrders == 2
MaxStaleOrders == 2
MaxOriginOrders == 2
NumClients == 1
MaxPush == 2
MaxPullFailures == 1

\* ------------------------------------------------------ program constants
NumEngines == 3
LocalBidDefault == 0
LocalAskDefault == 9999
None == -1

Engines == 1..NumEngines
Prices == 1..MaxPrice
Qtys == 1..MaxQty
SimQtys == 1..MaxSimQty
Clients == 1..NumClients
Symbols == {"X"}
WireSides == {"BUY", "SELL"}
EnumSides == {"Side.BUY", "Side.SELL"}
\* the floats of a GlobalBestPriceUpdate; 0 is the value of an unset field.
\* No book fed by main.py holds a bid (every order rests in asks), so the
\* best bid a peer has to push is the unset one.
PushBids == {0}
PushAsks == {0, MaxPrice}

\* ---------------------------------------------------------------- helpers
MinOf(a, b) == IF a <= b THEN a ELSE b
SetMin(S) == CHOOSE x \in S : \A y \in S : x <= y
SetMax(S) == CHOOSE x \in S : \A y \in S : x >= y
EmptyMap == [x \in {} |-> 0]
Put(f, k, v) == [x \in (DOMAIN f) \cup {k} |-> IF x = k THEN v ELSE f[x]]
Del(f, k) == [x \in (DOMAIN f) \ {k} |-> f[x]]
\* dict[k] of a defaultdict(list)
Get(f, k) == IF k \in DOMAIN f THEN f[k] ELSE << >>

RECURSIVE SumRem(_, _, _)
SumRem(objs, level, i) ==
    IF i > Len(level) THEN 0
    ELSE objs[level[i]].remaining_quantity + SumRem(objs, level, i + 1)

RECURSIVE FirstEq(_, _, _, _)
\* list.index(x): the first element that is x or compares equal to x, 0 if none
FirstEq(level, objs, x, i) ==
    IF i > Len(level) THEN 0
    ELSE IF level[i] = x \/ objs[level[i]] = objs[x] THEN i
    ELSE FirstEq(level, objs, x, i + 1)

\* list.remove(x) on a list known to hold x
ListRemove(level, objs, x) ==
    LET i == FirstEq(level, objs, x, 1)
    IN  SubSeq(level, 1, i - 1) \o SubSeq(level, i + 1, Len(level))

\* ------------------------------------------------------------- OrderBook
EmptyBook == [bids |-> EmptyMap, asks |-> EmptyMap]

\* a variant that names the incoming order's client as the buyer whatever
\* the side of the incoming order
FillIncomingBuys(inc, rest, mine, price, fill_qty, remaining) ==
    [fill_id |-> <<inc.order_id, rest.order_id>>,
     order_id |-> mine.order_id,
     symbol |-> mine.symbol,
     side |-> mine.side,
     price |-> price,
     quantity |-> fill_qty,
     remaining_quantity |-> remaining,
     buyer_id |-> inc.client_id,
     seller_id |-> rest.client_id,
     engine_destination_addr |-> inc.engine_origin_addr]

\* a variant that builds the fill_id from the order the record is about
FillIdOfMine(inc, rest, mine, price, fill_qty, remaining) ==
    [fill_id |-> <<mine.order_id, rest.order_id>>,
     order_id |-> mine.order_id,
     symbol |-> mine.symbol,
     side |-> mine.side,
     price |-> price,
     quantity |-> fill_qty,
     remaining_quantity |-> remaining,
     buyer_id |-> IF inc.side = "BUY" THEN inc.client_id ELSE rest.client_id,
     seller_id |-> IF inc.side = "BUY" THEN rest.client_id ELSE inc.client_id,
     engine_destination_addr |-> inc.engine_origin_addr]

\* The Fill built at a match; `mine` is the order the record is about.
Fill(inc, rest, mine, price, fill_qty, remaining) ==
    [fill_id |-> <<inc.order_id, rest.order_id>>,
     order_id |-> mine.order_id,
     symbol |-> mine.symbol,
     side |-> mine.side,
     price |-> price,
     quantity |-> fill_qty,
     remaining_quantity |-> remaining,
     buyer_id |-> IF inc.side = "BUY" THEN inc.client_id ELSE rest.client_id,
     seller_id |-> IF inc.side = "BUY" THEN rest.client_id ELSE inc.client_id,
     engine_destination_addr |-> inc.engine_origin_addr]

\* What one match leaves behind: st = [objs, level, incoming_fills,
\* resting_fills, trace], level being the live list self.asks[price] /
\* self.bids[price], o2 the objects after the two subtractions.  `trace`
\* records, per match, the opposite side of the book and every remaining
\* quantity as they were when the match was made.
MatchRecord(st, o2, inc, r, price, fill_qty, side_now) ==
    [objs |-> o2,
     level |-> IF o2[r].remaining_quantity <= 0
               THEN ListRemove(st.level, o2, r) ELSE st.level,
     incoming_fills |-> Append(st.incoming_fills,
         [to |-> o2[inc].client_id,
          fill |-> Fill(o2[inc], o2[r], o2[inc], price, fill_qty, 0)]),
     resting_fills |-> Append(st.resting_fills,
         [to |-> o2[r].client_id,
          fill |-> Fill(o2[inc], o2[r], o2[r], price, fill_qty,
                        o2[r].remaining_quantity)]),
     trace |-> Append(st.trace, [incoming |-> inc, resting |-> r,
         price |-> price, quantity |-> fill_qty, side |-> side_now,
         remaining |-> [x \in DOMAIN st.objs |->
                           st.objs[x].remaining_quantity]])]

\* a variant that fills the whole of what the incoming order has left
FillQtyIncoming(o, inc, r) == o[inc].remaining_quantity

\* min(incoming_order.remaining_quantity, resting_order.remaining_quantity)
FillQty(o, inc, r) == MinOf(o[inc].remaining_quantity, o[r].remaining_quantity)

\* a variant that leaves the resting order's quantity alone
MatchStepDropResting(st, inc, r, price, side_now) ==
    MatchRecord(st,
                [st.objs EXCEPT ![inc].remaining_quantity =
                                    @ - FillQty(st.objs, inc, r)],
                inc, r, price, FillQty(st.objs, inc, r), side_now)

\* a variant that takes from the resting order all the incoming order has left
MatchStepOverfill(st, inc, r, price, side_now) ==
    MatchRecord(st,
                [st.objs EXCEPT ![inc].remaining_quantity =
                                    @ - FillQty(st.objs, inc, r),
                                ![r].remaining_quantity =
                                    @ - st.objs[inc].remaining_quantity],
                inc, r, price, FillQty(st.objs, inc, r), side_now)

\* One iteration of `for resting_order in orders[:]` that reaches the match
MatchStep(st, inc, r, price, side_now) ==
    MatchRecord(st,
                [st.objs EXCEPT ![inc].remaining_quantity =
                                    @ - FillQty(st.objs, inc, r),
                                ![r].remaining_quantity =
                                    @ - FillQty(st.objs, inc, r)],
                inc, r, price, FillQty(st.objs, inc, r), side_now)

RECURSIVE MatchLoop(_, _, _, _, _, _)
\* for resting_order in orders[:]: `copy` is the slice taken at loop entry,
\* `others` the opposite side without the level being matched
MatchLoop(st, inc, price, copy, i, others) ==
    IF i > Len(copy) THEN st
    ELSE IF FillQty(st.objs, inc, copy[i]) <= 0
    THEN MatchLoop(st, inc, price, copy, i + 1, others)
    ELSE MatchLoop(MatchStep(st, inc, copy[i], price,
                             Put(others, price, st.level)),
                   inc, price, copy, i + 1, others)

\* the side of the book an incoming order is matched against
Opposite(bk, inc) == IF bk.objs[inc].side = "BUY" THEN bk.asks ELSE bk.bids

\* the level and the lists of fills as the loop left them, put back
MatchedAt(bk, side, price, st) ==
    IF side = "BUY"
    THEN [bk EXCEPT !.objs = st.objs, !.asks[price] = st.level,
                    !.incoming_fills = st.incoming_fills,
                    !.resting_fills = st.resting_fills,
                    !.trace = st.trace]
    ELSE IF side = "SELL"
    THEN [bk EXCEPT !.objs = st.objs, !.bids[price] = st.level,
                    !.incoming_fills = st.incoming_fills,
                    !.resting_fills = st.resting_fills,
                    !.trace = st.trace]
    ELSE bk

\* OrderBook._match_order_at_price: bk = [objs, bids, asks, incoming_fills,
\* resting_fills, trace]
_match_order_at_price(bk, inc, price) ==
    MatchedAt(bk, bk.objs[inc].side, price,
              MatchLoop([objs |-> bk.objs, level |-> Opposite(bk, inc)[price],
                         incoming_fills |-> bk.incoming_fills,
                         resting_fills |-> bk.resting_fills,
                         trace |-> bk.trace],
                        inc, price, Opposite(bk, inc)[price], 1,
                        Opposite(bk, inc)))

\* the price the loop of add_order visits next among `keys`
NextKeyWorstFirst(keys, ascending) ==
    IF ascending THEN SetMax(keys) ELSE SetMin(keys)

NextKey(keys, ascending) ==
    IF ascending THEN SetMin(keys) ELSE SetMax(keys)

\* a variant that never stops at the limit price
BeyondLimitNever(o, price, ascending) == FALSE

\* `if price > order.price: break` / `if price < order.price: break`
BeyondLimitOrEqual(o, price, ascending) ==
    IF ascending THEN price >= o.price ELSE price <= o.price

BeyondLimit(o, price, ascending) ==
    IF ascending THEN price > o.price ELSE price < o.price

RECURSIVE MatchLevels(_, _, _, _)
\* for price in sorted(self.asks.keys()) / sorted(self.bids.keys(), reverse)
MatchLevels(bk, inc, keys, ascending) ==
    IF keys = {} THEN bk
    ELSE IF \/ BeyondLimit(bk.objs[inc], NextKey(keys, ascending), ascending)
            \/ bk.objs[inc].remaining_quantity <= 0
    THEN bk
    ELSE MatchLevels(_match_order_at_price(bk, inc, NextKey(keys, ascending)),
                     inc, keys \ {NextKey(keys, ascending)}, ascending)

\* the tail of add_order: "Add remaining quantity to book"
RestHead(bk, inc) ==
    LET o == bk.objs[inc]
    IN  IF o.remaining_quantity > 0
        THEN IF o.side = "BUY"
             THEN [bk EXCEPT !.bids = Put(@, o.price, <<inc>> \o Get(@, o.price))]
             ELSE [bk EXCEPT !.asks = Put(@, o.price, <<inc>> \o Get(@, o.price))]
        ELSE bk

Rest(bk, inc) ==
    LET o == bk.objs[inc]
    IN  IF o.remaining_quantity > 0
        THEN IF o.side = "BUY"
             THEN [bk EXCEPT !.bids = Put(@, o.price, Append(Get(@, o.price), inc))]
             ELSE [bk EXCEPT !.asks = Put(@, o.price, Append(Get(@, o.price), inc))]
        ELSE bk

\* OrderBook.add_order(order) on book `book` with the objects `objs`;
\* the result holds the new objects, the new book and the fills returned
add_order(objs, book, inc) ==
    Rest(IF objs[inc].side = "BUY"
         THEN MatchLevels([objs |-> objs, bids |-> book.bids,
                           asks |-> book.asks, incoming_fills |-> << >>,
                           resting_fills |-> << >>, trace |-> << >>],
                          inc, DOMAIN book.asks, TRUE)
         ELSE MatchLevels([objs |-> objs, bids |-> book.bids,
                           asks |-> book.asks, incoming_fills |-> << >>,
                           resting_fills |-> << >>, trace |-> << >>],
                          inc, DOMAIN book.bids, FALSE),
         inc)

\* ------------------------------------------------- state of the cluster
VARIABLES
    objs,             \* the Order objects created so far, by reference
    books,            \* books[e]: MatchEngine.orderbooks, symbol -> OrderBook
    orders,           \* orders[e]: MatchEngine.orders, order_id -> reference
    global_best_prices, \* global_best_prices[e]: the synchronizer's view
    sequence_number,  \* sequence_number[e] of the synchronizer
    update_queue,     \* update_queue[e] of the synchronizer
    first_engine,     \* first_engine[r]: engine that got object r from the client
    admitted,         \* admitted[id]: engines whose book got add_order(id)
    answered,         \* order ids whose submission completed normally
    traded,           \* total quantity of the matches add_order produced
    pushes,           \* SyncGlobalBestPrice calls so far
    failures,         \* handler runs during which some peer pull failed
    last,             \* what the last handler did and returned
    tasks,            \* the submit_order coroutines started, by position
    running,          \* the coroutine the event loop is running, or 0
    sync              \* sync[e]: position of _sync_loop and its lock

vars == <<objs, books, orders, global_best_prices, sequence_number,
          update_queue, first_engine, admitted, answered, traded,
          pushes, failures, last, tasks, running, sync>>

\* the program state the pure operators below transform
World == [objs |-> objs, books |-> books, orders |-> orders,
          global_best_prices |-> global_best_prices,
          sequence_number |-> sequence_number, update_queue |-> update_queue]

\* OrderBookSynchronizer.peer_addresses of engine e, in the order of main.py
peer_addresses(e) == [k \in 1..(NumEngines - 1) |-> IF k < e THEN k ELSE k + 1]

\* the (price, quantity, order_count) tuples built from one side of a book
Levels(o, side) ==
    {<<p, SumRem(o, side[p], 1), Len(side[p])>> : p \in DOMAIN side}

\* MatchingServicer.GetOrderBook on engine a
GetOrderBook(w, a, symbol) ==
    IF symbol \in DOMAIN w.books[a]
    THEN [bids |-> Levels(w.objs, w.books[a][symbol].bids),
          asks |-> Levels(w.objs, w.books[a][symbol].asks)]
    ELSE [bids |-> {}, asks |-> {}]

\* max / min of the prices of the levels with quantity > 0, default None
BestPrice(levels, highest) ==
    IF {l \in levels : l[2] > 0} = {} THEN None
    ELSE IF highest THEN SetMax({l[1] : l \in {x \in levels : x[2] > 0}})
    ELSE SetMin({l[1] : l \in {x \in levels : x[2] > 0}})

\* acc holds highest_bid, highest_bid_engine, lowest_ask, lowest_ask_engine
TakeBid(acc, a, peer_highest_bid) ==
    IF peer_highest_bid # None
       /\ (acc.highest_bid = None \/ peer_highest_bid > acc.highest_bid)
    THEN [acc EXCEPT !.highest_bid = peer_highest_bid,
                     !.highest_bid_engine = a]
    ELSE acc

TakeAsk(acc, a, peer_lowest_ask) ==
    IF peer_lowest_ask # None
       /\ (acc.lowest_ask = None \/ peer_lowest_ask < acc.lowest_ask)
    THEN [acc EXCEPT !.lowest_ask = peer_lowest_ask,
                     !.lowest_ask_engine = a]
    ELSE acc

\* one pass of `for address, stub in self.peer_stubs.items()`
PollResponse(response, a, acc) ==
    TakeAsk(TakeBid(acc, a, BestPrice(response.bids, TRUE)), a,
            BestPrice(response.asks, FALSE))

PollPeer(w, symbol, a, acc) == PollResponse(GetOrderBook(w, a, symbol), a, acc)

RECURSIVE PollPeers(_, _, _, _, _, _)
\* `up`: the engines whose server answers; a pull of any other raises and
\* is skipped by the except clause
PollPeers(w, symbol, peers, i, acc, up) ==
    IF i > Len(peers) THEN acc
    ELSE IF peers[i] \notin up
    THEN PollPeers(w, symbol, peers, i + 1, acc, up)
    ELSE PollPeers(w, symbol, peers, i + 1, PollPeer(w, symbol, peers[i], acc), up)

\* the view entry update_global_best_prices stores
ViewEntry(acc) ==
    [best_bid |-> [price |-> acc.highest_bid, engine_id |-> acc.highest_bid_engine],
     best_ask |-> [price |-> acc.lowest_ask, engine_id |-> acc.lowest_ask_engine]]

\* highest_bid_engine = None, lowest_ask_engine = None
StartAcc(highest_bid, lowest_ask) ==
    [highest_bid |-> highest_bid, highest_bid_engine |-> None,
     lowest_ask |-> lowest_ask, lowest_ask_engine |-> None]

\* a variant that polls the peers only once the symbol has an entry
update_global_best_prices_FirstLocal(w, e, symbol, highest_bid, lowest_ask, up) ==
    [w EXCEPT !.global_best_prices[e] =
        Put(@, symbol,
            ViewEntry(IF symbol \in DOMAIN w.global_best_prices[e]
                      THEN PollPeers(w, symbol, peer_addresses(e), 1,
                                     StartAcc(highest_bid, lowest_ask), up)
                      ELSE StartAcc(highest_bid, lowest_ask)))]

\* OrderBookSynchronizer.update_global_best_prices of engine e
update_global_best_prices(w, e, symbol, highest_bid, lowest_ask, up) ==
    [w EXCEPT !.global_best_prices[e] =
        Put(@, symbol,
            ViewEntry(PollPeers(w, symbol, peer_addresses(e), 1,
                                StartAcc(highest_bid, lowest_ask), up)))]

\* a variant that enqueues the levels as it was given them
publish_update_Unfiltered(w, e, symbol, bids, asks, up) ==
    update_global_best_prices(
        [w EXCEPT !.update_queue[e] =
                      Append(@, [symbol |-> symbol, bids |-> bids,
                                 asks |-> asks]),
                  !.sequence_number[e] = @ + 1],
        e, symbol, BestPrice(bids, TRUE), BestPrice(asks, FALSE), up)

\* OrderBookSynchronizer.publish_update of engine e
publish_update(w, e, symbol, bids, asks, up) ==
    update_global_best_prices(
        [w EXCEPT !.update_queue[e] =
                      Append(@, [symbol |-> symbol,
                                 bids |-> {l \in bids : l[2] > 0},
                                 asks |-> {l \in asks : l[2] > 0}]),
                  !.sequence_number[e] = @ + 1],
        e, symbol, BestPrice(bids, TRUE), BestPrice(asks, FALSE), up)

\* ------------------------------------------------------------ MatchEngine
NoFills == [incoming_fills |-> << >>, resting_fills |-> << >>, trace |-> << >>]

\* a variant that reads an unknown symbol as prices of 0 no engine holds
GlobalBest_UnknownAsZero(w, e, symbol) ==
    IF symbol \in DOMAIN w.global_best_prices[e]
    THEN w.global_best_prices[e][symbol]
    ELSE [best_bid |-> [price |-> 0, engine_id |-> None],
          best_ask |-> [price |-> 0, engine_id |-> None]]

\* the entry of the view for `symbol`; global_best_bid and global_best_ask
\* are None when the view has none
GlobalBest(w, e, symbol) ==
    IF symbol \in DOMAIN w.global_best_prices[e]
    THEN w.global_best_prices[e][symbol]
    ELSE [best_bid |-> [price |-> None, engine_id |-> None],
          best_ask |-> [price |-> None, engine_id |-> None]]

\* max(bids.keys(), default=None), None replaced by 0
local_best_bid(local_orderbook) ==
    IF DOMAIN local_orderbook.bids = {} THEN LocalBidDefault
    ELSE SetMax(DOMAIN local_orderbook.bids)

\* min(asks.keys(), default=None), None replaced by 9999
local_best_ask(local_orderbook) ==
    IF DOMAIN local_orderbook.asks = {} THEN LocalAskDefault
    ELSE SetMin(DOMAIN local_orderbook.asks)

\* "Process locally": r is what add_order returned
ProcessLocally(w1, e, order, up, r) ==
    [w |-> publish_update([w1 EXCEPT !.objs = r.objs,
                                     !.books[e][order.symbol] =
                                         [bids |-> r.bids, asks |-> r.asks]],
                          e, order.symbol, Levels(r.objs, r.bids),
                          Levels(r.objs, r.asks), up),
     islocal |-> TRUE, idx |-> 0,
     fills |-> [incoming_fills |-> r.incoming_fills,
                resting_fills |-> r.resting_fills,
                trace |-> r.trace]]

\* a variant that queues the order locally before it answers with a reroute
Decide_QueueThenReroute(w1, e, ref, up, order, data, local_orderbook) ==
    IF /\ order.side = "Side.SELL"
       /\ data.best_bid.price # None
       /\ data.best_bid.price > order.price
       /\ data.best_bid.price > local_best_bid(local_orderbook)
    THEN [ProcessLocally(w1, e, order, up,
                         add_order(w1.objs, local_orderbook, ref))
             EXCEPT !.islocal = FALSE, !.idx = data.best_bid.engine_id]
    ELSE IF /\ order.side = "Side.BUY"
            /\ data.best_ask.price # None
            /\ data.best_ask.price < order.price
            /\ data.best_ask.price < local_best_ask(local_orderbook)
    THEN [ProcessLocally(w1, e, order, up,
                         add_order(w1.objs, local_orderbook, ref))
             EXCEPT !.islocal = FALSE, !.idx = data.best_ask.engine_id]
    ELSE ProcessLocally(w1, e, order, up,
                        add_order(w1.objs, local_orderbook, ref))

\* "Decide whether to process locally or reroute"
Decide(w1, e, ref, up, order, data, local_orderbook) ==
    IF /\ order.side = "Side.SELL"
       /\ data.best_bid.price # None
       /\ data.best_bid.price > order.price
       /\ data.best_bid.price > local_best_bid(local_orderbook)
    THEN [w |-> w1, islocal |-> FALSE, idx |-> data.best_bid.engine_id,
          fills |-> NoFills]
    ELSE IF /\ order.side = "Side.BUY"
            /\ data.best_ask.price # None
            /\ data.best_ask.price < order.price
            /\ data.best_ask.price < local_best_ask(local_orderbook)
    THEN [w |-> w1, islocal |-> FALSE, idx |-> data.best_ask.engine_id,
          fills |-> NoFills]
    ELSE ProcessLocally(w1, e, order, up,
                        add_order(w1.objs, local_orderbook, ref))

\* the order tracked and its book created
Tracked(w, e, ref) ==
    [w EXCEPT !.objs[ref].engine_id = e,
              !.orders[e] = Put(@, w.objs[ref].order_id, ref),
              !.books[e] = IF w.objs[ref].symbol \in DOMAIN @ THEN @
                           ELSE Put(@, w.objs[ref].symbol, EmptyBook)]

\* submit_order once the order is tracked
Routed(w1, e, ref, up) ==
    Decide(w1, e, ref, up, w1.objs[ref],
           GlobalBest(w1, e, w1.objs[ref].symbol),
           w1.books[e][w1.objs[ref].symbol])

\* MatchEngine.submit_order of engine e on the object `ref`; the result is
\* the new world, the tuple (islocal, idx) returned and the fills
submit_order(w, e, ref, up) == Routed(Tracked(w, e, ref), e, ref, up)

\* `lst.remove(order)` followed by the deletion of an emptied level;
\* `raised` when the list does not hold the order (ValueError)
RemoveFromSide(side, o, ref) ==
    IF FirstEq(side[o[ref].price], o, ref, 1) = 0
    THEN [raised |-> TRUE, side |-> side]
    ELSE [raised |-> FALSE,
          side |-> IF ListRemove(side[o[ref].price], o, ref) = << >>
                   THEN Del(side, o[ref].price)
                   ELSE [side EXCEPT ![o[ref].price] =
                            ListRemove(side[o[ref].price], o, ref)]]

\* the outcome of the remove: b of the bids, a of the asks
Removed(w1, e, order, book, b, a) ==
    IF order.side = "Side.BUY" /\ order.price \in DOMAIN book.bids
    THEN IF b.raised THEN [w |-> w1, result |-> "ValueError"]
         ELSE [w |-> [w1 EXCEPT !.books[e][order.symbol].bids = b.side],
               result |-> "order"]
    ELSE IF order.side = "Side.SELL" /\ order.price \in DOMAIN book.asks
    THEN IF a.raised THEN [w |-> w1, result |-> "ValueError"]
         ELSE [w |-> [w1 EXCEPT !.books[e][order.symbol].asks = a.side],
               result |-> "order"]
    ELSE [w |-> w1, result |-> "order"]

\* cancel_order once the status is CANCELLED
Cancelled(w1, e, ref, order, book) ==
    Removed(w1, e, order, book,
            RemoveFromSide(book.bids, w1.objs, ref),
            RemoveFromSide(book.asks, w1.objs, ref))

\* a variant without the test of the status
cancel_order_NoStatusTest(w, e, order_id) ==
    IF order_id \notin DOMAIN w.orders[e] THEN [w |-> w, result |-> "None"]
    ELSE Cancelled([w EXCEPT !.objs[w.orders[e][order_id]].status = "CANCELLED"],
                   e, w.orders[e][order_id],
                   [w.objs[w.orders[e][order_id]] EXCEPT !.status = "CANCELLED"],
                   w.books[e][w.objs[w.orders[e][order_id]].symbol])

\* MatchEngine.cancel_order of engine e; result is "order", "None" or
\* "ValueError" (the exception list.remove raises)
cancel_order(w, e, order_id) ==
    IF order_id \notin DOMAIN w.orders[e] THEN [w |-> w, result |-> "None"]
    ELSE IF w.objs[w.orders[e][order_id]].status = "CANCELLED"
    THEN [w |-> w, result |-> "None"]
    ELSE Cancelled([w EXCEPT !.objs[w.orders[e][order_id]].status = "CANCELLED"],
                   e, w.orders[e][order_id],
                   [w.objs[w.orders[e][order_id]] EXCEPT !.status = "CANCELLED"],
                   w.books[e][w.objs[w.orders[e][order_id]].symbol])

\* --------------------------------------------------- main.py run_simulation
\* the second `if fills:` of one iteration: the dict add_order returned is
\* non-empty, the list a reroute returned is empty; the publish goes through
\* the synchronizer picked before the reroute, with the final engine's book
PublishAfterFills(w, e, engine, symbol, islocal, up) ==
    IF islocal /\ symbol \in DOMAIN w.books[engine]
    THEN publish_update(w, e, symbol,
                        Levels(w.objs, w.books[engine][symbol].bids),
                        Levels(w.objs, w.books[engine][symbol].asks), up)
    ELSE w

\* what one submit_order call did
Hop(engine, r) == [engine |-> engine, islocal |-> r.islocal, idx |-> r.idx]

\* a variant that hands the order to every engine
run_simulation_iter_Broadcast(w, e, ref, up) ==
    LET r1 == submit_order(w, 1, ref, up)
        r2 == submit_order(r1.w, 2, ref, up)
        r3 == submit_order(r2.w, NumEngines, ref, up)
    IN  [w |-> r3.w,
         hops |-> <<Hop(1, r1), Hop(2, r2), Hop(NumEngines, r3)>>,
         ok |-> TRUE, fills |-> r3.fills]

\* the iteration after the submit_order of the engine a reroute named
AfterReroute(e, symbol, up, r1, r2) ==
    [w |-> PublishAfterFills(r2.w, e, r1.idx, symbol, r2.islocal, up),
     hops |-> <<Hop(e, r1), Hop(r1.idx, r2)>>, ok |-> TRUE,
     fills |-> r2.fills]

\* the iteration after the first submit_order
AfterSubmit(e, ref, symbol, up, r1) ==
    IF r1.islocal
    THEN [w |-> PublishAfterFills(r1.w, e, e, symbol, TRUE, up),
          hops |-> <<Hop(e, r1)>>, ok |-> TRUE, fills |-> r1.fills]
    ELSE IF r1.idx \notin Engines
    THEN \* KeyError in address_to_engine_id, caught by the loop
         [w |-> r1.w, hops |-> <<Hop(e, r1)>>, ok |-> FALSE, fills |-> NoFills]
    ELSE AfterReroute(e, symbol, up, r1, submit_order(r1.w, r1.idx, ref, up))

\* one iteration of the loop of run_simulation for the order object `ref`
\* and the engine e drawn at random; `hops` lists the submit_order calls
run_simulation_iter(w, e, ref, up) ==
    AfterSubmit(e, ref, w.objs[ref].symbol, up, submit_order(w, e, ref, up))

\* ------------------------------------------------------------- the steps
\* _sync_loop waiting on update_queue.get(), self.lock free
NoSync == [pc |-> "get", i |-> 1, lock |-> FALSE, update |-> 0]

NoLast == [op |-> "none", engine |-> None, ref |-> None, order_id |-> None,
           duplicate |-> FALSE, hops |-> << >>, ok |-> TRUE, fills |-> NoFills,
           result |-> "", symbol |-> "", bid |-> None, ask |-> None,
           repeat |-> FALSE, client |-> None, secret |-> "",
           up |-> Engines, reply |-> [bids |-> {}, asks |-> {}],
           sequence_number |-> None]

\* the engines a handler run can reach: all of them, or, while the budget of
\* failing runs lasts, all but one or none
UpSets ==
    IF failures < MaxPullFailures
    THEN {Engines, {}} \cup {Engines \ {x} : x \in Engines}
    ELSE {Engines}

NewOrder(id, symbol, side, price, quantity, remaining, client, origin) ==
    [order_id |-> id, symbol |-> symbol, side |-> side, price |-> price,
     quantity |-> quantity, remaining_quantity |-> remaining,
     status |-> "NEW", engine_id |-> None, client_id |-> client,
     engine_origin_addr |-> origin]

\* client_start.py: the engine client c is connected to (client_assignments
\* deals the clients round the engines)
me_addr(c) == ((c - 1) % NumEngines) + 1

RECURSIVE SumQuantity(_, _)
\* the total quantity of a list of (client_id, Fill) pairs
SumQuantity(fills, i) ==
    IF i > Len(fills) THEN 0
    ELSE fills[i].fill.quantity + SumQuantity(fills, i + 1)

\* the engines among `hops` whose submit_order called add_order
AdmittedBy(hops) == {hops[i].engine : i \in {j \in DOMAIN hops : hops[j].islocal}}

SetWorld(w) ==
    /\ objs' = w.objs
    /\ books' = w.books
    /\ orders' = w.orders
    /\ global_best_prices' = w.global_best_prices
    /\ sequence_number' = w.sequence_number
    /\ update_queue' = w.update_queue

Init ==
    /\ objs = << >>
    /\ books = [e \in Engines |-> EmptyMap]
    /\ orders = [e \in Engines |-> EmptyMap]
    /\ global_best_prices = [e \in Engines |-> EmptyMap]
    /\ sequence_number = [e \in Engines |-> 0]
    /\ update_queue = [e \in Engines |-> << >>]
    /\ first_engine = << >>
    /\ admitted = [i \in 1..MaxOrders |-> {}]
    /\ answered = {}
    /\ traded = 0
    /\ pushes = 0
    /\ failures = 0
    /\ last = NoLast
    /\ tasks = << >>
    /\ running = 0
    /\ sync = [e \in Engines |-> NoSync]

\* what an iteration of run_simulation leaves behind
RanSimulation(e, ref, symbol, up, r) ==
    /\ SetWorld(r.w)
    /\ first_engine' = Append(first_engine, e)
    /\ admitted' = [admitted EXCEPT ![ref] = @ \cup AdmittedBy(r.hops)]
    /\ answered' = IF r.ok THEN answered \cup {ref} ELSE answered
    /\ traded' = traded + SumQuantity(r.fills.incoming_fills, 1)
    /\ last' = [NoLast EXCEPT !.op = "run_simulation", !.engine = e,
                   !.ref = ref, !.order_id = ref, !.hops = r.hops,
                   !.ok = r.ok, !.fills = r.fills, !.up = up,
                   !.symbol = symbol]

\* main.py: one iteration of run_simulation
RunSimulation(e, symbol, side, price, quantity, remaining, user, up) ==
    /\ Len(objs) < MaxOrders
    /\ RanSimulation(e, Len(objs) + 1, symbol, up,
          run_simulation_iter(
              [World EXCEPT !.objs =
                  Append(@, NewOrder(Len(objs) + 1, symbol, side, price,
                                     quantity, remaining, user, None))],
              e, Len(objs) + 1, up))
    /\ failures' = IF up = Engines THEN failures ELSE failures + 1
    /\ UNCHANGED pushes
    /\ UNCHANGED <<tasks, running, sync>>

\* what SubmitOrder leaves behind; r is what submit_order returned
Submitted(e, ref, id, symbol, up, r) ==
    /\ SetWorld(r.w)
    /\ first_engine' = Append(first_engine, e)
    /\ admitted' = [admitted EXCEPT ![id] = IF r.islocal THEN @ \cup {e} ELSE @]
    /\ answered' = answered \cup {id}
    /\ traded' = traded + SumQuantity(r.fills.incoming_fills, 1)
    /\ last' = [NoLast EXCEPT !.op = "SubmitOrder", !.engine = e,
                   !.ref = ref, !.order_id = id,
                   !.duplicate = (id \in DOMAIN orders[e]),
                   !.hops = <<Hop(e, r)>>,
                   !.fills = r.fills, !.result = "SUCCESS", !.up = up,
                   !.symbol = symbol]

\* the order_id of a request: a new one, or that of the request sent again
RequestId(again) == IF again = 0 THEN Len(objs) + 1 ELSE objs[again].order_id

\* grpc_server.py: MatchingServicer.SubmitOrder on the engine of client c;
\* `again` is 0 for a new order, or the object whose request is sent again
SubmitOrder(c, symbol, side, price, quantity, again, up) ==
    /\ Len(objs) < MaxOrders
    /\ again \in {0} \cup {r \in DOMAIN objs : objs[r].client_id = c}
    /\ again # 0 => /\ symbol = objs[again].symbol
                    /\ side = objs[again].side
                    /\ price = objs[again].price
                    /\ quantity = objs[again].quantity
    /\ Submitted(me_addr(c), Len(objs) + 1, RequestId(again), symbol, up,
          submit_order(
              [World EXCEPT !.objs =
                  Append(@, NewOrder(RequestId(again), symbol, side, price,
                                     quantity, quantity, c, me_addr(c)))],
              me_addr(c), Len(objs) + 1, up))
    /\ failures' = IF up = Engines THEN failures ELSE failures + 1
    /\ UNCHANGED pushes
    /\ UNCHANGED <<tasks, running, sync>>

\* grpc_server.py: MatchingServicer.SubmitOrder on engine e for a request of
\* client c, sent by c itself or passed on to e: engine_origin_addr names
\* the engine c is connected to, as client.py wrote it
SubmitOrderAt(e, c, symbol, side, price, quantity) ==
    /\ Len(objs) < MaxOriginOrders
    /\ Submitted(e, Len(objs) + 1, RequestId(0), symbol, Engines,
          submit_order(
              [World EXCEPT !.objs =
                  Append(@, NewOrder(RequestId(0), symbol, side, price,
                                     quantity, quantity, c, me_addr(c)))],
              e, Len(objs) + 1, Engines))
    /\ UNCHANGED <<failures, pushes>>
    /\ UNCHANGED <<tasks, running, sync>>

\* the response of CancelOrder to what cancel_order returned
CancelReplied(e, order_id, r) ==
    /\ SetWorld(r.w)
    /\ last' = [NoLast EXCEPT !.op = "CancelOrder", !.engine = e,
                   !.order_id = order_id,
                   !.result = IF r.result = "order" THEN "SUCCESS"
                              ELSE IF r.result = "None" THEN "NOT_FOUND"
                              ELSE "ERROR",
                   !.ok = (r.result # "ValueError")]

\* grpc_server.py: MatchingServicer.CancelOrder -> MatchEngine.cancel_order
CancelOrder(e, order_id) ==
    /\ CancelReplied(e, order_id, cancel_order(World, e, order_id))
    /\ UNCHANGED <<first_engine, admitted, answered, traded, pushes, failures>>
    /\ UNCHANGED <<tasks, running, sync>>

\* grpc_server.py: MatchingServicer.SyncGlobalBestPrice
SyncGlobalBestPrice(e, symbol, best_bid, best_ask, up) ==
    /\ pushes < MaxPush
    /\ pushes' = pushes + 1
    /\ SetWorld(update_global_best_prices(World, e, symbol, best_bid, best_ask, up))
    /\ last' = [NoLast EXCEPT !.op = "SyncGlobalBestPrice", !.engine = e,
                   !.symbol = symbol, !.bid = best_bid, !.ask = best_ask,
                   !.up = up,
                   !.repeat = /\ last.op = "SyncGlobalBestPrice"
                              /\ last.engine = e /\ last.symbol = symbol
                              /\ last.bid = best_bid /\ last.ask = best_ask]
    /\ failures' = IF up = Engines THEN failures ELSE failures + 1
    /\ UNCHANGED <<first_engine, admitted, answered, traded>>
    /\ UNCHANGED <<tasks, running, sync>>

\* grpc_server.py: MatchingServicer.SyncOrderBook answers with the engine's
\* own levels and stores nothing of the update it was sent
SyncOrderBook(e, symbol) ==
    /\ last' = [NoLast EXCEPT !.op = "SyncOrderBook", !.engine = e,
                   !.symbol = symbol, !.reply = GetOrderBook(World, e, symbol)]
    /\ UNCHANGED <<objs, books, orders, global_best_prices, sequence_number,
                   update_queue, first_engine, admitted, answered, traded,
                   pushes, failures>>
    /\ UNCHANGED <<tasks, running, sync>>

\* synchronizer.py: one turn of _sync_loop: the update is taken off the
\* queue and broadcast with the sequence number the engine has at that
\* moment (the peers' SyncOrderBook stores nothing); the pull of
\* _process_peer_updates applies nothing, no response carrying a sequence
\* number above the local one
SyncLoop(e) ==
    /\ update_queue[e] # << >>
    /\ update_queue' = [update_queue EXCEPT ![e] = Tail(@)]
    /\ last' = [NoLast EXCEPT !.op = "_sync_loop", !.engine = e,
                   !.symbol = Head(update_queue[e]).symbol,
                   !.sequence_number = sequence_number[e]]
    /\ UNCHANGED <<objs, books, orders, global_best_prices, sequence_number,
                   first_engine, admitted, answered, traded, pushes, failures>>
    /\ UNCHANGED <<tasks, running, sync>>

\* exchange_start.py: PASSWORD, the key the Exchange is configured with
authentication_key == "password"

\* the keys a client presents
Keys == {"password", "wrong"}

\* exchange.py: Exchange.authenticate
authenticate(client_id, client_authentication) == TRUE

\* a call of Exchange.authenticate for client c
Authenticate(c, key) ==
    /\ last' = [NoLast EXCEPT !.op = "authenticate", !.client = c,
                   !.secret = key, !.ok = authenticate(c, key)]
    /\ UNCHANGED <<objs, books, orders, global_best_prices, sequence_number,
                   update_queue, first_engine, admitted, answered, traded,
                   pushes, failures>>
    /\ UNCHANGED <<tasks, running, sync>>

\* the ids a CancelOrder request names: those the engine knows and one it
\* does not
CancelIds(e) == (DOMAIN orders[e]) \cup {MaxOrders + 1}

\* Spec: the simulator of main.py submits orders to engines drawn at random
\* while peers push best prices; every peer answers every pull.
Next ==
    \/ \E e \in Engines, symbol \in Symbols, side \in EnumSides,
          price \in Prices, quantity \in SimQtys, remaining \in SimQtys,
          user \in Clients :
          RunSimulation(e, symbol, side, price, quantity, remaining, user,
                        Engines)
    \/ \E e \in Engines, symbol \in Symbols, bid \in PushBids,
          ask \in PushAsks :
          SyncGlobalBestPrice(e, symbol, bid, ask, Engines)

Spec == Init /\ [][Next]_vars

\* SpecWire: clients submit and cancel through the gRPC servicer while the
\* gossip loops drain the update queues; every peer answers every pull.
NextWire ==
    \/ \E c \in Clients, symbol \in Symbols, side \in WireSides,
          price \in Prices, quantity \in Qtys, again \in 0..MaxOrders :
          SubmitOrder(c, symbol, side, price, quantity, again, Engines)
    \/ \E e \in Engines : \E id \in CancelIds(e) : CancelOrder(e, id)
    \/ \E e \in Engines : SyncLoop(e)

SpecWire == Init /\ [][NextWire]_vars

\* SpecGossip: best prices are pushed and pulled while a few orders arrive;
\* a pull of a peer's book may fail.
NextGossip ==
    \/ \E e \in Engines, symbol \in Symbols, side \in EnumSides,
          price \in Prices, quantity \in SimQtys, remaining \in SimQtys,
          user \in Clients, up \in UpSets :
          /\ Len(objs) < MaxGossipOrders
          /\ RunSimulation(e, symbol, side, price, quantity, remaining, user, up)
    \/ \E e \in Engines, symbol \in Symbols, bid \in PushBids,
          ask \in PushAsks, up \in UpSets :
          SyncGlobalBestPrice(e, symbol, bid, ask, up)
    \/ \E e \in Engines, symbol \in Symbols : SyncOrderBook(e, symbol)

SpecGossip == Init /\ [][NextGossip]_vars

\* client_start.py: two clients that client_assignments connects to the
\* same engine (Adam and Diana, both on engine_0)
SameEngineClients == {1, 1 + NumEngines}

\* SpecFills: two clients of one engine submit orders through the gRPC
\* servicer; every peer answers every pull.
NextFills ==
    \E c \in SameEngineClients, symbol \in Symbols, side \in WireSides,
       price \in Prices, quantity \in Qtys :
       SubmitOrder(c, symbol, side, price, quantity, 0, Engines)

SpecFills == Init /\ [][NextFills]_vars

\* the prices and quantities of requests nothing has validated
EdgePrices == {0, 1}
EdgeQtys == {0, 1}

\* SpecEdge: the engines of main.py serve gRPC requests while the simulator
\* runs: orders of the simulator and unvalidated orders of a client, cancels
\* and authentications; every peer answers every pull.
NextEdge ==
    \/ \E e \in Engines, symbol \in Symbols, side \in EnumSides,
          price \in Prices, quantity \in SimQtys, remaining \in SimQtys,
          user \in Clients :
          /\ Len(objs) < MaxEdgeOrders
          /\ RunSimulation(e, symbol, side, price, quantity, remaining, user,
                           Engines)
    \/ \E c \in Clients, symbol \in Symbols, side \in WireSides,
          price \in EdgePrices, quantity \in EdgeQtys :
          /\ Len(objs) < MaxEdgeOrders
          /\ SubmitOrder(c, symbol, side, price, quantity, 0, Engines)
    \/ \E e \in Engines : \E id \in CancelIds(e) : CancelOrder(e, id)
    \/ \E c \in Clients, key \in Keys : Authenticate(c, key)

SpecEdge == Init /\ [][NextEdge]_vars

\* SpecStale: the simulator draws quantity and remaining_quantity of an order
\* independently of each other, and clients of the gRPC servicer trade on the
\* same books.
NextStale ==
    \/ \E e \in Engines, symbol \in Symbols, side \in EnumSides,
          price \in Prices, quantity \in Qtys, remaining \in Qtys,
          user \in Clients :
          /\ Len(objs) < MaxStaleOrders
          /\ RunSimulation(e, symbol, side, price, quantity, remaining, user,
                           Engines)
    \/ \E c \in Clients, symbol \in Symbols, side \in WireSides,
          price \in Prices, quantity \in Qtys :
          /\ Len(objs) < MaxStaleOrders
          /\ SubmitOrder(c, symbol, side, price, quantity, 0, Engines)

SpecStale == Init /\ [][NextStale]_vars

\* SpecOrigin: every engine serves SubmitOrder requests of clients of two
\* engines, so that orders of different origin engines meet in one book.
OriginClients == {1, 2}

NextOrigin ==
    \E e \in Engines, c \in OriginClients, symbol \in Symbols,
       side \in WireSides, price \in Prices, quantity \in Qtys :
       SubmitOrderAt(e, c, symbol, side, price, quantity)

SpecOrigin == Init /\ [][NextOrigin]_vars

\* SpecPublish: clients of two engines trade two symbols through the gRPC
\* servicer; every local submit_order ends with one publish_update.
TwoSymbols == {"X", "Y"}

NextPublish ==
    \E c \in OriginClients, symbol \in TwoSymbols, side \in WireSides,
       price \in Prices, quantity \in Qtys :
       SubmitOrder(c, symbol, side, price, quantity, 0, Engines)

SpecPublish == Init /\ [][NextPublish]_vars

\* ------------------------------------------ coroutines on one event loop
\* the submit_order coroutines an engine runs at once, over the whole run
MaxTasks == 2

\* the clients whose requests one engine serves concurrently
TaskClients == SameEngineClients

\* a variant in which the coroutine is suspended before it calls add_order
Suspends_BeforeAddOrder(pc) == pc \in {"add_order", "GetOrderBook", "return"}

\* the positions of submit_order at which the event loop may run another
\* coroutine: the `await stub.GetOrderBook(...)` of the pulls inside
\* publish_update, and the end of the coroutine.  Awaiting a coroutine
\* (submit_order, publish_update, update_global_best_prices) and putting on
\* the unbounded update_queue do not suspend.
Suspends(pc) == pc \in {"GetOrderBook", "return"}

\* the coroutine the event loop runs after coroutine t reached pc
Yield(t, pc) == IF Suspends(pc) THEN 0 ELSE t

\* what the routing decision read of the local book
Seen(o, book) ==
    [book |-> book, bids |-> Levels(o, book.bids), asks |-> Levels(o, book.asks)]

\* submit_order up to the routing decision, on the tracked world w1
Decided(e, ref, id, symbol, w1, t, pc) ==
    /\ SetWorld(w1)
    /\ tasks' = Append(tasks, [engine |-> e, ref |-> ref, order_id |-> id,
                               symbol |-> symbol, pc |-> pc,
                               seen |-> Seen(w1.objs, w1.books[e][symbol]),
                               highest_bid |-> None, lowest_ask |-> None])
    /\ running' = Yield(t, pc)
    /\ first_engine' = Append(first_engine, e)
    /\ last' = [NoLast EXCEPT !.op = "submit_order", !.engine = e,
                   !.ref = ref, !.order_id = id, !.symbol = symbol]

\* grpc_server.py: a SubmitOrder request of client c starts a coroutine,
\* which runs submit_order up to the routing decision
TaskSubmitOrder(c, symbol, side, price, quantity) ==
    /\ running = 0
    /\ Len(tasks) < MaxTasks
    /\ Len(objs) < MaxOrders
    /\ Decided(me_addr(c), Len(objs) + 1, RequestId(0), symbol,
               Tracked([World EXCEPT !.objs =
                           Append(@, NewOrder(RequestId(0), symbol, side, price,
                                              quantity, quantity, c,
                                              me_addr(c)))],
                       me_addr(c), Len(objs) + 1),
               Len(tasks) + 1,
               IF Routed(Tracked([World EXCEPT !.objs =
                           Append(@, NewOrder(RequestId(0), symbol, side, price,
                                              quantity, quantity, c,
                                              me_addr(c)))],
                       me_addr(c), Len(objs) + 1),
                         me_addr(c), Len(objs) + 1, Engines).islocal
               THEN "add_order" ELSE "return")
    /\ UNCHANGED <<admitted, answered, traded, pushes, failures, sync>>

\* publish_update up to the first pull: the update queued and the sequence
\* number advanced
Enqueued(w, e, symbol, bids, asks) ==
    [w EXCEPT !.update_queue[e] =
                  Append(@, [symbol |-> symbol,
                             bids |-> {l \in bids : l[2] > 0},
                             asks |-> {l \in asks : l[2] > 0}]),
              !.sequence_number[e] = @ + 1]

\* what add_order and the start of publish_update leave; r is what add_order
\* returned
AddedOrder(t, e, symbol, r) ==
    /\ SetWorld(Enqueued([World EXCEPT !.objs = r.objs,
                                       !.books[e][symbol] =
                                           [bids |-> r.bids, asks |-> r.asks]],
                         e, symbol, Levels(r.objs, r.bids),
                         Levels(r.objs, r.asks)))
    /\ tasks' = [tasks EXCEPT ![t].pc = "GetOrderBook",
                    ![t].highest_bid = BestPrice(Levels(r.objs, r.bids), TRUE),
                    ![t].lowest_ask = BestPrice(Levels(r.objs, r.asks), FALSE)]
    /\ running' = Yield(t, "GetOrderBook")
    /\ admitted' = [admitted EXCEPT ![tasks[t].order_id] = @ \cup {e}]
    /\ traded' = traded + SumQuantity(r.incoming_fills, 1)
    /\ last' = [NoLast EXCEPT !.op = "add_order", !.engine = e,
                   !.ref = tasks[t].ref, !.order_id = tasks[t].order_id,
                   !.symbol = symbol,
                   !.fills = [incoming_fills |-> r.incoming_fills,
                              resting_fills |-> r.resting_fills,
                              trace |-> r.trace]]

\* match_engine.py: coroutine t goes on from the decision: add_order, the
\* levels, and publish_update up to the first pull of a peer
TaskAddOrder(t) ==
    /\ running \in {0, t}
    /\ tasks[t].pc = "add_order"
    /\ AddedOrder(t, tasks[t].engine, tasks[t].symbol,
                  add_order(objs, books[tasks[t].engine][tasks[t].symbol],
                            tasks[t].ref))
    /\ UNCHANGED <<first_engine, answered, pushes, failures, sync>>

\* synchronizer.py: the pulls of coroutine t are answered and
\* update_global_best_prices stores the view entry; submit_order returns.
\* The best prices the entry starts from are those publish_update was
\* called with.
TaskReturn(t) ==
    /\ running = 0
    /\ tasks[t].pc = "GetOrderBook"
    /\ SetWorld(update_global_best_prices(World, tasks[t].engine,
                                          tasks[t].symbol, tasks[t].highest_bid,
                                          tasks[t].lowest_ask, Engines))
    /\ tasks' = [tasks EXCEPT ![t].pc = "return"]
    /\ running' = Yield(t, "return")
    /\ answered' = answered \cup {tasks[t].order_id}
    /\ last' = [NoLast EXCEPT !.op = "update_global_best_prices",
                   !.engine = tasks[t].engine, !.ref = tasks[t].ref,
                   !.order_id = tasks[t].order_id, !.symbol = tasks[t].symbol,
                   !.bid = tasks[t].highest_bid, !.ask = tasks[t].lowest_ask]
    /\ UNCHANGED <<first_engine, admitted, traded, pushes, failures, sync>>

\* grpc_server.py: a CancelOrder request is served when no coroutine holds
\* the event loop; cancel_order has no await
TaskCancelOrder(e, order_id) ==
    /\ running = 0
    /\ CancelOrder(e, order_id)

\* SpecTasks: one engine serves SubmitOrder and CancelOrder requests of its
\* clients concurrently on one event loop; every peer answers every pull.
NextTasks ==
    \/ \E c \in TaskClients, symbol \in Symbols, side \in WireSides,
          price \in Prices, quantity \in Qtys :
          TaskSubmitOrder(c, symbol, side, price, quantity)
    \/ \E t \in DOMAIN tasks : TaskAddOrder(t)
    \/ \E t \in DOMAIN tasks : TaskReturn(t)
    \/ \E e \in Engines : \E id \in CancelIds(e) : TaskCancelOrder(e, id)

SpecTasks == Init /\ [][NextTasks]_vars

\* ------------------------------------------------------ the gossip loop
\* the orders submitted while the loops run
MaxLoopOrders == 2

\* the sequence_number field of the response to a pull: 0 when the peer left
\* it unset, as MatchingServicer.GetOrderBook does, or a number above every
\* number the local synchronizer has reached
ResponseSeqs == {0, MaxLoopOrders + 1}

\* `update = await self.update_queue.get()` and _broadcast_update; the loop
\* goes on to _process_peer_updates
LoopGet(e) ==
    /\ sync[e].pc = "get"
    /\ update_queue[e] # << >>
    /\ update_queue' = [update_queue EXCEPT ![e] = Tail(@)]
    /\ sync' = [sync EXCEPT ![e].pc = "_process_peer_updates"]
    /\ last' = [NoLast EXCEPT !.op = "_sync_loop", !.engine = e,
                   !.symbol = Head(update_queue[e]).symbol,
                   !.sequence_number = sequence_number[e]]
    /\ UNCHANGED <<objs, books, orders, global_best_prices, sequence_number,
                   first_engine, admitted, answered, traded, pushes, failures,
                   tasks, running>>

\* the position after the pull of peer i is dealt with: the next peer, or
\* the end of _process_peer_updates, where the lock is released and the
\* loop sleeps and waits on the queue again
AfterPeer(y) ==
    IF y.i < NumEngines - 1
    THEN [y EXCEPT !.pc = "GetOrderBook", !.i = y.i + 1, !.update = 0]
    ELSE [NoSync EXCEPT !.lock = FALSE]

\* `async with self.lock`: asyncio.Lock is granted only while nobody holds
\* it, the coroutine that asks included.  _process_peer_updates then pulls
\* its first peer; _apply_update raises the sequence number and leaves.
LoopAcquire(e) ==
    /\ sync[e].pc \in {"_process_peer_updates", "_apply_update"}
    /\ ~sync[e].lock
    /\ IF sync[e].pc = "_process_peer_updates"
       THEN /\ sync' = [sync EXCEPT ![e].pc = "GetOrderBook", ![e].i = 1,
                                     ![e].lock = TRUE]
            /\ UNCHANGED sequence_number
       ELSE /\ sync' = [sync EXCEPT ![e] = AfterPeer(@)]
            /\ sequence_number' =
                   [sequence_number EXCEPT ![e] =
                       IF sync[e].update > @ THEN sync[e].update ELSE @]
    /\ last' = [NoLast EXCEPT !.op = "lock", !.engine = e]
    /\ UNCHANGED <<objs, books, orders, global_best_prices, update_queue,
                   first_engine, admitted, answered, traded, pushes, failures,
                   tasks, running>>

\* `updates = await stub.GetOrderBook(request)` of peer i returns a response
\* whose sequence_number is sn; a greater one than the local number leads to
\* `await self._apply_update(updates)`
LoopResponse(e, sn) ==
    /\ sync[e].pc = "GetOrderBook"
    /\ sync' = [sync EXCEPT ![e] =
                   IF sn > sequence_number[e]
                   THEN [@ EXCEPT !.pc = "_apply_update", !.update = sn]
                   ELSE AfterPeer(@)]
    /\ last' = [NoLast EXCEPT !.op = "_process_peer_updates", !.engine = e,
                   !.sequence_number = sn]
    /\ UNCHANGED <<objs, books, orders, global_best_prices, sequence_number,
                   update_queue, first_engine, admitted, answered, traded,
                   pushes, failures, tasks, running>>

\* the steps of the _sync_loop coroutine of engine e
LoopStep(e) ==
    \/ LoopGet(e)
    \/ LoopAcquire(e)
    \/ \E sn \in ResponseSeqs : LoopResponse(e, sn)

\* SpecLoop: clients submit orders through the gRPC servicer while the
\* synchronizers run their _sync_loop.
NextLoop ==
    \/ \E c \in Clients, symbol \in Symbols, side \in WireSides,
          price \in Prices, quantity \in Qtys :
          /\ Len(objs) < MaxLoopOrders
          /\ SubmitOrder(c, symbol, side, price, quantity, 0, Engines)
    \/ \E e \in Engines : LoopGet(e)
    \/ \E e \in Engines : LoopAcquire(e)
    \/ \E e \in Engines, sn \in ResponseSeqs : LoopResponse(e, sn)

\* the event loop resumes a coroutine whose await has completed: the queue
\* holds an update, the lock is free, the peer has answered
SpecLoop == Init /\ [][NextLoop]_vars /\ \A e \in Engines : WF_vars(LoopStep(e))

\* --------------------------------------------------------- properties
BuySides == {"BUY", "Side.BUY"}
SellSides == {"SELL", "Side.SELL"}

RECURSIVE SumFilled(_, _)
\* quantity - remaining_quantity summed over the orders of the sides S
SumFilled(S, i) ==
    IF i > Len(objs) THEN 0
    ELSE (IF objs[i].side \in S
          THEN objs[i].quantity - objs[i].remaining_quantity ELSE 0)
         + SumFilled(S, i + 1)

\* the matches the last add_order made, in the order it made them
LastTrace == last.fills.trace

\* the references a side of a book holds at prices strictly better for the
\* incoming order of match m than the price of m
BetterRefs(m) ==
    {m.side[p][i] : <<p, i>> \in
        {x \in (DOMAIN m.side) \X (1..MaxOrders) :
            /\ x[2] <= Len(m.side[x[1]])
            /\ IF objs[m.incoming].side = "BUY" THEN x[1] < m.price
               ELSE x[1] > m.price}}

\* the prices of one side of a book at which some order rests
Resting(side) == {p \in DOMAIN side : side[p] # << >>}

C2_PricePriority ==
    \A k \in DOMAIN LastTrace :
        \A r \in BetterRefs(LastTrace[k]) : LastTrace[k].remaining[r] <= 0

C2_Witness ==
    /\ last.op = "SubmitOrder"
    /\ Len(LastTrace) >= 2
    /\ \/ /\ objs[last.ref].side = "BUY"
          /\ LastTrace[1].price < LastTrace[2].price
       \/ /\ objs[last.ref].side = "SELL"
          /\ LastTrace[1].price > LastTrace[2].price

\* C3: time priority.  A resting order is matched at a price only when every
\* order that arrived earlier at that price has no remaining quantity left.
C3_TimePriority ==
    \A k \in DOMAIN LastTrace :
        LET m == LastTrace[k]
            level == m.side[m.price]
        IN  \A i \in DOMAIN level :
                level[i] < m.resting => m.remaining[level[i]] <= 0

C3_Witness ==
    /\ last.op = "SubmitOrder"
    /\ Len(LastTrace) >= 2
    /\ LastTrace[1].price = LastTrace[2].price
    /\ LastTrace[1].resting < LastTrace[2].resting

RECURSIVE CountId(_, _, _)
\* the entries of a price level that carry order_id id
CountId(level, id, i) ==
    IF i > Len(level) THEN 0
    ELSE (IF objs[level[i]].order_id = id THEN 1 ELSE 0)
         + CountId(level, id, i + 1)

RECURSIVE CountIdSide(_, _, _)
CountIdSide(side, keys, id) ==
    IF keys = {} THEN 0
    ELSE LET p == SetMin(keys)
         IN  CountId(side[p], id, 1) + CountIdSide(side, keys \ {p}, id)

\* the resting entries of engine e for order_id id
Entries(e, id) ==
    LET RECURSIVE OverSymbols(_)
        OverSymbols(S) ==
            IF S = {} THEN 0
            ELSE LET symbol == CHOOSE x \in S : TRUE
                     bk == books[e][symbol]
                 IN  CountIdSide(bk.bids, DOMAIN bk.bids, id)
                     + CountIdSide(bk.asks, DOMAIN bk.asks, id)
                     + OverSymbols(S \ {symbol})
    IN  OverSymbols(DOMAIN books[e])

\* C9: duplicate-submit idempotence.  A SubmitOrder whose order_id the
\* engine already tracks produces no fill and leaves at most one resting
\* entry for that id.
C9_DuplicateSubmit ==
    (last.op = "SubmitOrder" /\ last.duplicate) =>
        /\ last.fills.incoming_fills = << >>
        /\ Entries(last.engine, last.order_id) <= 1

\* C5: routing bound.  Over its whole lifetime an order is passed to
\* OrderBook.add_order on at most two engines, whatever the views hold.
C5_RoutingBound ==
    \A id \in DOMAIN admitted : Cardinality(admitted[id]) <= 2

C5_Witness ==
    /\ last.op = "run_simulation"
    /\ Len(last.hops) = 2
    /\ ~last.hops[1].islocal
    /\ last.hops[2].islocal
    /\ admitted[last.order_id] = {last.hops[2].engine}

\* C6: cycle prevention.  An order that was rerouted once is processed
\* locally by the engine that receives it: the second submit_order calls
\* add_order and does not answer with another reroute.
C6_NoSecondReroute ==
    (last.op = "run_simulation" /\ Len(last.hops) >= 2) =>
        last.hops[2].islocal

\* C7: no lost or duplicated order.  Every order whose submission completed
\* successfully was passed to add_order on exactly one engine.
C7_AdmittedOnce ==
    \A id \in answered : Cardinality(admitted[id]) = 1

\* C8: origin is write-once.  The engine field of an order, set by the first
\* engine that receives the order, is never rewritten by a later engine.
C8_OriginWriteOnce ==
    \A r \in DOMAIN objs : objs[r].engine_id = first_engine[r]

\* the same best prices pushed to the same engine by two handler runs in a row
SamePushTwice ==
    /\ last.op = "SyncGlobalBestPrice"
    /\ last'.op = "SyncGlobalBestPrice"
    /\ last'.engine = last.engine
    /\ last'.symbol = last.symbol
    /\ last'.bid = last.bid
    /\ last'.ask = last.ask

\* the peers of the engine of the last handler run that answered its pulls
Answering(l) ==
    l.up \cap {peer_addresses(l.engine)[k] : k \in 1..(NumEngines - 1)}

BuyOrder(m) ==
    IF objs[m.incoming].side \in BuySides THEN objs[m.incoming]
    ELSE objs[m.resting]

SellOrder(m) ==
    IF objs[m.incoming].side \in BuySides THEN objs[m.resting]
    ELSE objs[m.incoming]

\* the (client_id, Fill) pair p is about the match m and names its parties
Attributed(p, m) ==
    /\ p.fill.buyer_id = p.to \/ p.fill.seller_id = p.to
    /\ p.fill.buyer_id = BuyOrder(m).client_id
    /\ p.fill.seller_id = SellOrder(m).client_id
    /\ BuyOrder(m).side = "BUY"
    /\ SellOrder(m).side = "SELL"

\* C11: fill attribution.  Every fill record add_order addresses to a
\* client_id names that client as buyer or as seller; the buyer is the client
\* of the BUY order of the match and the seller the client of its SELL order.
C11_FillAttribution ==
    /\ Len(last.fills.incoming_fills) = Len(LastTrace)
    /\ Len(last.fills.resting_fills) = Len(LastTrace)
    /\ \A k \in DOMAIN LastTrace :
          /\ Attributed(last.fills.incoming_fills[k], LastTrace[k])
          /\ Attributed(last.fills.resting_fills[k], LastTrace[k])
          /\ last.fills.incoming_fills[k].to =
                objs[LastTrace[k].incoming].client_id
          /\ last.fills.resting_fills[k].to =
                objs[LastTrace[k].resting].client_id

C11_Witness ==
    /\ last.op = "SubmitOrder"
    /\ LastTrace # << >>
    /\ objs[last.ref].side = "SELL"
    /\ objs[LastTrace[1].resting].client_id # objs[last.ref].client_id

\* the references one side of a book holds
RefsOf(side) ==
    {side[x[1]][x[2]] : x \in {y \in (DOMAIN side) \X (1..MaxOrders) :
                                  y[2] <= Len(side[y[1]])}}

\* the references the books of engine e hold
RefsIn(e) ==
    UNION {RefsOf(books[e][symbol].bids) \cup RefsOf(books[e][symbol].asks) :
           symbol \in DOMAIN books[e]}

\* C12: cancel removes the order.  An order cancelled with success is marked
\* CANCELLED, is in no price level any more, and no later add_order produces
\* a fill against it.
C12_CancelRemoves ==
    /\ (last.op = "CancelOrder" /\ last.result = "SUCCESS") =>
          objs[orders[last.engine][last.order_id]].status = "CANCELLED"
    /\ \A e \in Engines : \A r \in RefsIn(e) : objs[r].status # "CANCELLED"
    /\ \A k \in DOMAIN LastTrace :
          objs[LastTrace[k].resting].status # "CANCELLED"

\* engine e has nothing to cancel under order_id id: it does not know the id,
\* or the order is CANCELLED already
NothingToCancel(e, id) ==
    IF id \in DOMAIN orders[e]
    THEN objs[orders[e][id]].status = "CANCELLED"
    ELSE TRUE

\* C13: cancel error outcomes.  cancel_order on an order_id the engine does
\* not know is answered NOT_FOUND and changes no engine state; cancel_order on
\* an order that is CANCELLED already is a no-op that changes no engine state
\* (and is answered NOT_FOUND as well).
C13_CancelErrors ==
    [][(last'.op = "CancelOrder"
        /\ NothingToCancel(last'.engine, last'.order_id))
       => /\ last'.result = "NOT_FOUND"
          /\ UNCHANGED <<objs, books, orders, global_best_prices,
                         sequence_number, update_queue>>]_vars

C13_Witness ==
    /\ last.op = "CancelOrder"
    /\ last.result = "NOT_FOUND"
    /\ last.order_id \in DOMAIN orders[last.engine]
    /\ objs[orders[last.engine][last.order_id]].status = "CANCELLED"

\* a sell with quantity left rests on engine e at a price the order r accepts
CrossingSellOn(e, r) ==
    \E x \in RefsIn(e) \ {r} :
        /\ objs[x].side \in SellSides
        /\ objs[x].remaining_quantity > 0
        /\ objs[x].price <= objs[r].price

\* C14: fill return to origin.  A BUY order rerouted from its origin engine
\* E1 to an engine E2 on which a crossing sell rests is matched on E2, and
\* the fill it gets is addressed to E1.
C14_FillReturn ==
    (/\ last.op = "run_simulation"
     /\ Len(last.hops) = 2
     /\ last.hops[2].islocal
     /\ objs[last.ref].side \in BuySides
     /\ CrossingSellOn(last.hops[2].engine, last.ref))
    => /\ last.fills.incoming_fills # << >>
       /\ \A k \in DOMAIN last.fills.incoming_fills :
             last.fills.incoming_fills[k].fill.engine_destination_addr =
                 first_engine[last.ref]

\* C15: validation.  An order with zero quantity, zero remaining quantity or
\* a price that is not positive is rejected with an error and leaves the
\* order map, the book and the view as they were.
C15_Validation ==
    [][(/\ last'.op = "SubmitOrder"
        /\ \/ objs'[last'.ref].quantity <= 0
           \/ objs'[last'.ref].price <= 0)
       => /\ last'.result = "ERROR"
          /\ UNCHANGED <<books, orders, global_best_prices>>]_vars

\* C16: authentication.  Authenticate answers true only for the configured
\* shared secret.
C16_Authentication ==
    (last.op = "authenticate" /\ last.ok) => last.secret = authentication_key

\* the state of the program before and after a step
WorldNext == [objs |-> objs', books |-> books', orders |-> orders',
              global_best_prices |-> global_best_prices',
              sequence_number |-> sequence_number',
              update_queue |-> update_queue']

\* a step changed what the book of engine e for `symbol` holds
BookChanged(e, symbol) ==
    GetOrderBook(WorldNext, e, symbol) # GetOrderBook(World, e, symbol)

\* C17: publish after every state change.  Every step that changes a book of
\* an engine comes with a publish_update of that engine for the symbol,
\* carrying the levels of the book after the change.
C17_PublishAfterChange ==
    [][\A e \in Engines : \A symbol \in Symbols :
          BookChanged(e, symbol) =>
             /\ sequence_number'[e] > sequence_number[e]
             /\ update_queue'[e] # << >>
             /\ LET update == update_queue'[e][Len(update_queue'[e])]
                    book == GetOrderBook(WorldNext, e, symbol)
                IN  /\ update.symbol = symbol
                    /\ update.bids = {l \in book.bids : l[2] > 0}
                    /\ update.asks = {l \in book.asks : l[2] > 0}]_vars

\* the book of engine e for `symbol` as submit_order finds it
LocalBook(e, symbol) ==
    IF symbol \in DOMAIN books[e] THEN books[e][symbol] ELSE EmptyBook

\* a peer of engine e holds `price` on the given side with quantity left
PeerHolds(e, peer, symbol, price, asks) ==
    /\ peer \in Engines \ {e}
    /\ \E l \in (IF asks THEN GetOrderBook(World, peer, symbol).asks
                 ELSE GetOrderBook(World, peer, symbol).bids) :
          l[1] = price /\ l[2] > 0

\* a peer of engine e is strictly better for the order: the price the view
\* advertises improves on the limit and on the local best, and the level
\* that peer advertises has quantity
StrictlyBetter(e, order) ==
    \/ /\ order.side \in BuySides
       /\ GlobalBest(World, e, order.symbol).best_ask.price # None
       /\ GlobalBest(World, e, order.symbol).best_ask.price < order.price
       /\ GlobalBest(World, e, order.symbol).best_ask.price <
             local_best_ask(LocalBook(e, order.symbol))
       /\ PeerHolds(e, GlobalBest(World, e, order.symbol).best_ask.engine_id,
                    order.symbol,
                    GlobalBest(World, e, order.symbol).best_ask.price, TRUE)
    \/ /\ order.side \in SellSides
       /\ GlobalBest(World, e, order.symbol).best_bid.price # None
       /\ GlobalBest(World, e, order.symbol).best_bid.price > order.price
       /\ GlobalBest(World, e, order.symbol).best_bid.price >
             local_best_bid(LocalBook(e, order.symbol))
       /\ PeerHolds(e, GlobalBest(World, e, order.symbol).best_bid.engine_id,
                    order.symbol,
                    GlobalBest(World, e, order.symbol).best_bid.price, FALSE)

\* C18: routing predicate.  submit_order sends an order away only when a
\* peer is strictly better: the advertised best price of the opposite side
\* improves on both the order's limit and the local best, and the advertised
\* level has quantity; in every other case the order is processed locally.
C18_RoutingPredicate ==
    [][last'.op = "run_simulation" =>
          (~last'.hops[1].islocal =>
              StrictlyBetter(last'.engine, objs'[last'.ref]))]_vars

\* the references the books of engine e hold in the world w
RefsInWorld(w, e) ==
    UNION {RefsOf(w.books[e][symbol].bids) \cup RefsOf(w.books[e][symbol].asks) :
           symbol \in DOMAIN w.books[e]}

\* C19: unknown symbol stays local.  When the symbol of the order has no
\* entry in the view of the engine, submit_order does not reroute: the order
\* goes through the local book once and what is left of it rests on that
\* engine, on no other.
C19_UnknownSymbolLocal ==
    [][(/\ last'.op = "run_simulation"
        /\ last'.symbol \notin DOMAIN global_best_prices[last'.engine])
       => /\ Len(last'.hops) = 1
          /\ last'.hops[1].islocal
          /\ last'.ok
          /\ objs'[last'.ref].remaining_quantity > 0 =>
                \A e \in Engines :
                    (last'.ref \in RefsInWorld(WorldNext, e))
                        <=> (e = last'.engine)]_vars

\* an engine whose view did not know the symbol kept a BUY although a peer
\* holds a lower ask
C19_Witness ==
    /\ last.op = "run_simulation"
    /\ pushes = 0
    /\ DOMAIN orders[last.engine] = {last.order_id}
    /\ last.hops[1].islocal
    /\ objs[last.ref].side = "Side.BUY"
    /\ last.ref \in RefsIn(last.engine)
    /\ \E e \in Engines \ {last.engine} : \E x \in RefsIn(e) :
          /\ objs[x].side = "Side.SELL"
          /\ objs[x].remaining_quantity > 0
          /\ objs[x].price < objs[last.ref].price

\* C20: a routed order is not queued locally.  Whenever submit_order answers
\* that the order must go to a peer, also when the forward then fails, the
\* bids and asks of the local book and the quantities of the orders resting
\* in it are as before, and no fill is produced on the local engine.
C20_RoutedNotQueued ==
    [][(last'.op = "run_simulation" /\ ~last'.hops[1].islocal)
       => /\ books'[last'.engine][last'.symbol] =
                LocalBook(last'.engine, last'.symbol)
          /\ \A r \in RefsIn(last'.engine) :
                objs'[r].remaining_quantity = objs[r].remaining_quantity
          /\ last'.ref \notin RefsInWorld(WorldNext, last'.engine)
          /\ Len(last'.hops) = 1 =>
                (last'.fills = NoFills /\ traded' = traded)]_vars

\* an engine that holds orders sent an order away
C20_Witness ==
    /\ last.op = "run_simulation"
    /\ ~last.hops[1].islocal
    /\ RefsIn(last.engine) # {}
    /\ Len(last.hops) = 2
    /\ last.ref \in RefsIn(last.hops[2].engine)

\* an engine sent an order away and the forward failed
C20_WitnessForwardFails ==
    /\ last.op = "run_simulation"
    /\ ~last.hops[1].islocal
    /\ ~last.ok

\* the remaining quantities right after the k-th match of the last add_order
RemainingAfter(k) ==
    IF k < Len(LastTrace) THEN LastTrace[k + 1].remaining
    ELSE [x \in DOMAIN objs |-> objs[x].remaining_quantity]

\* C21: match step.  For each resting order r matched by an incoming order o
\* the fill quantity is min(o.remaining_quantity, r.remaining_quantity) as
\* they were before the match, both are decreased by exactly that amount,
\* and the fill price is the price of the level r rests at.
C21_MatchStep ==
    \A k \in DOMAIN LastTrace :
        /\ LastTrace[k].quantity =
               MinOf(LastTrace[k].remaining[LastTrace[k].incoming],
                     LastTrace[k].remaining[LastTrace[k].resting])
        /\ LastTrace[k].quantity > 0
        /\ RemainingAfter(k)[LastTrace[k].incoming] =
               LastTrace[k].remaining[LastTrace[k].incoming]
                   - LastTrace[k].quantity
        /\ RemainingAfter(k)[LastTrace[k].resting] =
               LastTrace[k].remaining[LastTrace[k].resting]
                   - LastTrace[k].quantity
        /\ \A x \in DOMAIN LastTrace[k].remaining :
               x \notin {LastTrace[k].incoming, LastTrace[k].resting} =>
                   RemainingAfter(k)[x] = LastTrace[k].remaining[x]
        /\ LastTrace[k].price = objs[LastTrace[k].resting].price
        /\ last.fills.incoming_fills[k].fill.price = LastTrace[k].price
        /\ last.fills.resting_fills[k].fill.price = LastTrace[k].price
        /\ last.fills.incoming_fills[k].fill.quantity = LastTrace[k].quantity
        /\ last.fills.resting_fills[k].fill.quantity = LastTrace[k].quantity

\* SELL 2 at a price, then BUY 1 at that price: one fill of 1 at the price,
\* and a SELL remainder of 1 stays on the book
C21_Witness ==
    /\ last.op = "SubmitOrder"
    /\ objs[last.ref].side = "BUY"
    /\ Len(LastTrace) = 1
    /\ LastTrace[1].quantity = 1
    /\ LastTrace[1].price = objs[last.ref].price
    /\ objs[LastTrace[1].resting].quantity = 2
    /\ objs[LastTrace[1].resting].remaining_quantity = 1
    /\ LastTrace[1].resting \in RefsIn(last.engine)
    /\ objs[last.ref].remaining_quantity = 0

\* the engine whose book the last handler handed the order to, None if none
AddedOn ==
    IF last.hops # << >> /\ last.hops[Len(last.hops)].islocal
    THEN last.hops[Len(last.hops)].engine ELSE None

\* the side of a book on which an order of the side of o belongs
OwnSide(book, o) == IF o.side \in BuySides THEN book.bids ELSE book.asks

\* the other side of the book
OtherSide(book, o) == IF o.side \in BuySides THEN book.asks ELSE book.bids

\* the order r is the tail of the level at its limit price on its own side
\* of the book and is in no other level of the book
AtTail(book, r) ==
    /\ objs[r].price \in DOMAIN OwnSide(book, objs[r])
    /\ OwnSide(book, objs[r])[objs[r].price] # << >>
    /\ OwnSide(book, objs[r])[objs[r].price]
           [Len(OwnSide(book, objs[r])[objs[r].price])] = r
    /\ r \notin RefsOf(OtherSide(book, objs[r]))
    /\ \A p \in DOMAIN OwnSide(book, objs[r]) :
          \A i \in DOMAIN OwnSide(book, objs[r])[p] :
              OwnSide(book, objs[r])[p][i] = r =>
                  /\ p = objs[r].price
                  /\ i = Len(OwnSide(book, objs[r])[p])

\* C22: resting remainder.  After matching, an incoming order with remaining
\* quantity is appended at the tail of the level at its own limit price on
\* its own side, and an incoming order with nothing remaining is not added to
\* the book; an order that made no match and has quantity rests.
C22_RestingRemainder ==
    (last.op \in {"SubmitOrder", "run_simulation"} /\ AddedOn # None) =>
        IF objs[last.ref].remaining_quantity > 0
        THEN AtTail(books[AddedOn][last.symbol], last.ref)
        ELSE last.ref \notin RefsIn(AddedOn)

\* C23: fresh-order coercion.  An order that arrives with remaining_quantity
\* different from quantity is treated as fresh: what it fills in add_order
\* and what it is left with make up its full quantity.
C23_FreshCoercion ==
    (last.op \in {"SubmitOrder", "run_simulation"} /\ AddedOn # None) =>
        objs[last.ref].remaining_quantity
            + SumQuantity(last.fills.incoming_fills, 1)
        = objs[last.ref].quantity

\* C24: remaining-quantity bounds.  In every reachable state every order
\* submitted with remaining_quantity = quantity satisfies
\* 0 <= remaining_quantity <= quantity, whatever submits, matches and
\* cancels came before.  (Every order of SubmitOrder is submitted so.)
C24_RemainingBounds ==
    \A r \in DOMAIN objs :
        /\ 0 <= objs[r].remaining_quantity
        /\ objs[r].remaining_quantity <= objs[r].quantity

\* after a submit, a cancel and a match one order is partly filled and
\* another one is filled
C24_Witness ==
    /\ \E r \in DOMAIN objs :
          /\ 0 < objs[r].remaining_quantity
          /\ objs[r].remaining_quantity < objs[r].quantity
    /\ \E r \in DOMAIN objs : objs[r].remaining_quantity = 0
    /\ \E r \in DOMAIN objs : objs[r].status = "CANCELLED"

\* C25: status tracks fills.  In every reachable state an order has status
\* FILLED exactly when its remaining_quantity is 0, and an order that has
\* been partly matched is no longer NEW.
C25_StatusTracksFills ==
    \A r \in DOMAIN objs :
        /\ (objs[r].status = "FILLED") <=> (objs[r].remaining_quantity = 0)
        /\ objs[r].remaining_quantity < objs[r].quantity =>
               objs[r].status # "NEW"

\* C26: price-level invariant.  In every reachable state every order stored
\* in the bids of a book has side BUY, every order stored in asks has side
\* SELL, each is stored under its own limit price, and each has
\* remaining_quantity > 0.
C26_PriceLevels ==
    \A e \in Engines : \A symbol \in DOMAIN books[e] :
        /\ \A p \in DOMAIN books[e][symbol].bids :
              \A i \in DOMAIN books[e][symbol].bids[p] :
                  /\ objs[books[e][symbol].bids[p][i]].side \in BuySides
                  /\ objs[books[e][symbol].bids[p][i]].price = p
                  /\ objs[books[e][symbol].bids[p][i]].remaining_quantity > 0
        /\ \A p \in DOMAIN books[e][symbol].asks :
              \A i \in DOMAIN books[e][symbol].asks[p] :
                  /\ objs[books[e][symbol].asks[p][i]].side \in SellSides
                  /\ objs[books[e][symbol].asks[p][i]].price = p
                  /\ objs[books[e][symbol].asks[p][i]].remaining_quantity > 0

\* C27: empty levels are evicted.  After add_order returns, no price key of
\* bids or asks maps to an empty sequence of orders.
C27_NoEmptyLevel ==
    \A e \in Engines : \A symbol \in DOMAIN books[e] :
        /\ \A p \in DOMAIN books[e][symbol].bids :
              books[e][symbol].bids[p] # << >>
        /\ \A p \in DOMAIN books[e][symbol].asks :
              books[e][symbol].asks[p] # << >>

\* the prices of one side of a book whose level holds at least one order
\* with remaining quantity
LiveLevels(side) ==
    {p \in DOMAIN side :
        \E i \in DOMAIN side[p] : objs[side[p][i]].remaining_quantity > 0}

\* C28: local best used for routing.  The local best bid and the local best
\* ask that submit_order compares with the view are the highest bid price and
\* the lowest ask price among the levels that hold at least one resting order
\* with remaining quantity; a level emptied by earlier matches does not count.
C28_LocalBestLive ==
    \A e \in Engines : \A symbol \in DOMAIN books[e] :
        /\ local_best_bid(books[e][symbol]) =
              (IF LiveLevels(books[e][symbol].bids) = {} THEN LocalBidDefault
               ELSE SetMax(LiveLevels(books[e][symbol].bids)))
        /\ local_best_ask(books[e][symbol]) =
              (IF LiveLevels(books[e][symbol].asks) = {} THEN LocalAskDefault
               ELSE SetMin(LiveLevels(books[e][symbol].asks)))

\* C29: paired fills.  Each match emits exactly one record in incoming_fills
\* and one in resting_fills; the two carry the same fill_id, price, quantity,
\* buyer_id and seller_id, and the fill_id is made of the order_id of the
\* incoming order and the order_id of the resting order, nothing else.
C29_PairedFills ==
    /\ Len(last.fills.incoming_fills) = Len(LastTrace)
    /\ Len(last.fills.resting_fills) = Len(LastTrace)
    /\ \A k \in DOMAIN LastTrace :
          /\ last.fills.incoming_fills[k].fill.fill_id =
                 last.fills.resting_fills[k].fill.fill_id
          /\ last.fills.incoming_fills[k].fill.price =
                 last.fills.resting_fills[k].fill.price
          /\ last.fills.incoming_fills[k].fill.quantity =
                 last.fills.resting_fills[k].fill.quantity
          /\ last.fills.incoming_fills[k].fill.buyer_id =
                 last.fills.resting_fills[k].fill.buyer_id
          /\ last.fills.incoming_fills[k].fill.seller_id =
                 last.fills.resting_fills[k].fill.seller_id
          /\ last.fills.incoming_fills[k].fill.fill_id =
                 <<objs[LastTrace[k].incoming].order_id,
                   objs[LastTrace[k].resting].order_id>>
          /\ last.fills.incoming_fills[k].fill.order_id =
                 objs[LastTrace[k].incoming].order_id
          /\ last.fills.resting_fills[k].fill.order_id =
                 objs[LastTrace[k].resting].order_id

\* one add_order made two matches, between orders of different clients
C29_Witness ==
    /\ last.op = "SubmitOrder"
    /\ Len(LastTrace) = 2
    /\ LastTrace[1].resting # LastTrace[2].resting
    /\ last.fills.incoming_fills[1].fill.buyer_id #
           last.fills.incoming_fills[1].fill.seller_id
    /\ last.fills.incoming_fills[1].fill.fill_id #
           last.fills.incoming_fills[2].fill.fill_id

\* C30: fill destination.  The engine_destination_addr of a fill is the
\* origin engine of the party being notified: the incoming-side fill carries
\* the origin engine of the incoming order, the resting-side fill that of the
\* resting order, also when the two orders have different origin engines.
C30_FillDestination ==
    \A k \in DOMAIN LastTrace :
        /\ last.fills.incoming_fills[k].fill.engine_destination_addr =
               objs[LastTrace[k].incoming].engine_origin_addr
        /\ last.fills.resting_fills[k].fill.engine_destination_addr =
               objs[LastTrace[k].resting].engine_origin_addr

\* what update_global_best_prices of engine e stores for `symbol` when it is
\* handed the best prices of the levels `book` and every peer answers
Recomputed(w, e, symbol, book) ==
    ViewEntry(PollPeers(w, symbol, peer_addresses(e), 1,
                        StartAcc(BestPrice(book.bids, TRUE),
                                 BestPrice(book.asks, FALSE)), Engines))

\* C32: publish_update effect.  Each call of publish_update enqueues exactly
\* one update, holding only the price levels with quantity > 0, increases
\* the local sequence_number by exactly 1 and recomputes global_best_prices
\* for that symbol before it returns; it changes the view of no other symbol
\* (and nothing of another engine's synchronizer).
C32_PublishEffect ==
    [][last'.op = "SubmitOrder" =>
          /\ Len(update_queue'[last'.engine]) =
                 Len(update_queue[last'.engine]) + 1
          /\ SubSeq(update_queue'[last'.engine], 1,
                    Len(update_queue[last'.engine])) =
                 update_queue[last'.engine]
          /\ update_queue'[last'.engine][Len(update_queue'[last'.engine])] =
                 [symbol |-> last'.symbol,
                  bids |-> {l \in GetOrderBook(WorldNext, last'.engine,
                                               last'.symbol).bids : l[2] > 0},
                  asks |-> {l \in GetOrderBook(WorldNext, last'.engine,
                                               last'.symbol).asks : l[2] > 0}]
          /\ sequence_number'[last'.engine] =
                 sequence_number[last'.engine] + 1
          /\ global_best_prices'[last'.engine][last'.symbol] =
                 Recomputed(WorldNext, last'.engine, last'.symbol,
                            GetOrderBook(WorldNext, last'.engine,
                                         last'.symbol))
          /\ DOMAIN global_best_prices'[last'.engine] =
                 DOMAIN global_best_prices[last'.engine] \cup {last'.symbol}
          /\ \A symbol \in DOMAIN global_best_prices[last'.engine] :
                 symbol # last'.symbol =>
                     global_best_prices'[last'.engine][symbol] =
                         global_best_prices[last'.engine][symbol]
          /\ \A e \in Engines \ {last'.engine} :
                 /\ global_best_prices'[e] = global_best_prices[e]
                 /\ sequence_number'[e] = sequence_number[e]
                 /\ update_queue'[e] = update_queue[e]]_vars

\* an engine whose view holds the other symbol published a book with an
\* emptied level, and a peer holds a book of the symbol published
C32_Witness ==
    /\ last.op = "SubmitOrder"
    /\ \E l \in GetOrderBook(World, last.engine, last.symbol).bids
               \cup GetOrderBook(World, last.engine, last.symbol).asks :
          l[2] = 0
    /\ DOMAIN global_best_prices[last.engine] = TwoSymbols
    /\ sequence_number[last.engine] = 3

\* the best level with quantity that peer a holds on one side of `symbol`
PeerBest(a, symbol, bid) ==
    IF bid THEN BestPrice(GetOrderBook(World, a, symbol).bids, TRUE)
    ELSE BestPrice(GetOrderBook(World, a, symbol).asks, FALSE)

\* the positions in peer_addresses(e) of the peers that answer
Reachable(e, up) ==
    {i \in DOMAIN peer_addresses(e) : peer_addresses(e)[i] \in up}

\* the prices update_global_best_prices chooses among: the local best it was
\* handed and the best of every peer that answers
Candidates(e, symbol, local, up, bid) ==
    ({local} \cup {PeerBest(peer_addresses(e)[i], symbol, bid) :
                      i \in Reachable(e, up)}) \ {None}

\* the maximum (bids) or minimum (asks) of the candidates, None if none
BestCandidate(C, bid) ==
    IF C = {} THEN None ELSE IF bid THEN SetMax(C) ELSE SetMin(C)

\* the owner of the best price: the first peer polled that holds it when the
\* local best does not attain it, and `self` otherwise
OwnerOf(e, symbol, local, up, bid, best, self) ==
    IF best = None \/ local = best THEN self
    ELSE peer_addresses(e)[
             SetMin({i \in Reachable(e, up) :
                        PeerBest(peer_addresses(e)[i], symbol, bid) = best})]

\* the view entry for the arguments of the last SyncGlobalBestPrice, written
\* with `self` as the owner of a price no peer improves on
ExpectedEntry(l, self) ==
    [best_bid |->
        [price |-> BestCandidate(
                       Candidates(l.engine, l.symbol, l.bid, l.up, TRUE), TRUE),
         engine_id |-> OwnerOf(l.engine, l.symbol, l.bid, l.up, TRUE,
                          BestCandidate(
                              Candidates(l.engine, l.symbol, l.bid, l.up, TRUE),
                              TRUE), self)],
     best_ask |->
        [price |-> BestCandidate(
                       Candidates(l.engine, l.symbol, l.ask, l.up, FALSE), FALSE),
         engine_id |-> OwnerOf(l.engine, l.symbol, l.ask, l.up, FALSE,
                          BestCandidate(
                              Candidates(l.engine, l.symbol, l.ask, l.up, FALSE),
                              FALSE), self)]]

\* C33: global best computation.  After update_global_best_prices(symbol,
\* local_bid, local_ask) the stored best bid is the maximum and the stored
\* best ask the minimum over the local best and the best level with quantity
\* of each peer that answers; the stored engine is a peer exactly when that
\* peer's price is strictly better than the local best and than every peer
\* polled before it, and is the local engine otherwise.
C33_GlobalBest ==
    last.op = "SyncGlobalBestPrice" =>
        global_best_prices[last.engine][last.symbol] =
            ExpectedEntry(last, last.engine)

\* the same with the prices only
C33_GlobalBestPrices ==
    last.op = "SyncGlobalBestPrice" =>
        /\ global_best_prices[last.engine][last.symbol].best_bid.price =
               ExpectedEntry(last, last.engine).best_bid.price
        /\ global_best_prices[last.engine][last.symbol].best_ask.price =
               ExpectedEntry(last, last.engine).best_ask.price

\* C35: peer failure fallback.  When the pull of a peer's book fails during
\* the recomputation, that peer is ignored and the recomputation completes
\* over the peers that answer; when every pull fails, the stored best bid and
\* ask are this engine's local best with the local engine as owner.
C35_PeerFailureFallback ==
    (last.op = "SyncGlobalBestPrice" /\ last.up # Engines) =>
        /\ last.symbol \in DOMAIN global_best_prices[last.engine]
        /\ global_best_prices[last.engine][last.symbol].best_bid.price =
               ExpectedEntry(last, last.engine).best_bid.price
        /\ global_best_prices[last.engine][last.symbol].best_ask.price =
               ExpectedEntry(last, last.engine).best_ask.price
        /\ Reachable(last.engine, last.up) = {} =>
               global_best_prices[last.engine][last.symbol] =
                   [best_bid |-> [price |-> last.bid,
                                  engine_id |-> last.engine],
                    best_ask |-> [price |-> last.ask,
                                  engine_id |-> last.engine]]

\* C36: execution price respects limits.  Every fill has quantity > 0; its
\* price is the limit price of the resting order it consumed, is not above
\* the limit of the BUY order and not below the limit of the SELL order of
\* that match.
C36_PriceWithinLimits ==
    \A k \in DOMAIN LastTrace :
        /\ last.fills.incoming_fills[k].fill.quantity > 0
        /\ last.fills.resting_fills[k].fill.quantity > 0
        /\ last.fills.incoming_fills[k].fill.price =
               objs[LastTrace[k].resting].price
        /\ last.fills.resting_fills[k].fill.price =
               objs[LastTrace[k].resting].price
        /\ \A r \in {LastTrace[k].incoming, LastTrace[k].resting} :
              /\ objs[r].side \in BuySides =>
                     LastTrace[k].price <= objs[r].price
              /\ objs[r].side \in SellSides =>
                     LastTrace[k].price >= objs[r].price

\* a BUY was filled below its limit and, in another match of the same call,
\* at its limit
C36_Witness ==
    /\ last.op = "SubmitOrder"
    /\ objs[last.ref].side = "BUY"
    /\ Len(LastTrace) = 2
    /\ last.fills.incoming_fills[1].fill.price < objs[last.ref].price
    /\ last.fills.incoming_fills[2].fill.price = objs[last.ref].price

\* C37: reroute target is a real peer.  Whenever submit_order declines local
\* processing, the engine id it returns is the id of an engine other than the
\* one that declined, never an absent owner.
C37_RerouteTargetIsPeer ==
    \A h \in DOMAIN last.hops :
        ~last.hops[h].islocal =>
            last.hops[h].idx \in Engines \ {last.hops[h].engine}

C34_IncreasingBroadcasts ==
    [][(/\ last.op = "_sync_loop"
        /\ last'.op = "_sync_loop"
        /\ last'.engine = last.engine)
       => last'.sequence_number > last.sequence_number]_vars

\* C31: atomic matching.  When a submit_order coroutine calls add_order, the
\* book is as its routing decision read it: the same orders at the same
\* levels with the same remaining quantities, whatever other SubmitOrder and
\* CancelOrder requests the engine serves meanwhile.
C31_AtomicMatching ==
    [][\A t \in DOMAIN tasks :
          (tasks[t].pc = "add_order" /\ tasks'[t].pc # "add_order")
          => tasks[t].seen =
                 Seen(objs, books[tasks[t].engine][tasks[t].symbol])]_vars

\* a coroutine matched an order while another was suspended in its pulls
C31_Witness ==
    /\ Len(tasks) >= 2
    /\ tasks[1].pc = "GetOrderBook"
    /\ tasks[2].pc = "GetOrderBook"
    /\ last.op = "add_order"
    /\ last.ref = tasks[2].ref
    /\ Len(LastTrace) = 1

\* C39: latest publish wins.  Once every submit_order coroutine of an engine
\* has returned, two of them at least, the view of the engine for the symbol
\* is the one computed from the best prices the last publish_update was
\* called with.
C39_LatestPublishWins ==
    (/\ Len(tasks) >= 2
     /\ \A t \in DOMAIN tasks : tasks[t].pc = "return")
    => global_best_prices[tasks[Len(tasks)].engine][tasks[Len(tasks)].symbol] =
           ViewEntry(PollPeers(World, tasks[Len(tasks)].symbol,
                               peer_addresses(tasks[Len(tasks)].engine), 1,
                               StartAcc(tasks[Len(tasks)].highest_bid,
                                        tasks[Len(tasks)].lowest_ask),
                               Engines))

\* C38: the gossip loop does not deadlock.  Whenever _process_peer_updates
\* holds the lock of a synchronizer, it later returns and releases it, so
\* that the loop waits on the queue again.
C38_LockReleased ==
    \A e \in Engines : sync[e].lock ~> (~sync[e].lock /\ sync[e].pc = "get")

====
